---- MODULE Spec2Model ----
(***************************************************************************)
(* Exam lifecycle and grading engine of the interactive assessment         *)
(* platform (src/app.py): the relational store (questions, exams,          *)
(* exam_questions, exam_answers), the wall clock, and one action per HTTP  *)
(* handler.  A handler runs to completion; a handler that raises leaves    *)
(* the store as of its last successful commit.                             *)
(***************************************************************************)
EXTENDS Integers, Sequences, FiniteSets, TLC

(***************************************************************************)
(* Bounds of the model.                                                    *)
(***************************************************************************)
NumStudents == 2
MaxQuestions == 1
MaxExams == 2
MaxPayload == 2
TicksPerSecond == 2
MaxPeriods == 1
MaxOffset == 2
MaxLogs == 3
MaxPool == 3
MaxDesired == 4
MaxTextLen == 3
NumRequests == 2

(***************************************************************************)
(* Program constants.                                                      *)
(***************************************************************************)
NumQuestions == 50
DurationMinutes == 60

Students == 1..NumStudents

\* Optional values: Python's None and a present value.
None == <<>>
Some(x) == <<x>>

\* Texts are sequences of characters.
EmptyText == <<>>
ModelAnswers == {<<"a", " ">>}
AnswerTexts == {EmptyText, <<"A">>}

(***************************************************************************)
(* Similarity grader: grade_answer_text and the difflib sequence matcher   *)
(* it calls.  Positions are 0-based and ranges half-open, as in Python.    *)
(***************************************************************************)
Min(x, y) == IF x <= y THEN x ELSE y

lower(c) == IF c = "A" THEN "a" ELSE IF c = "B" THEN "b" ELSE c

IsSpace(c) == c = " "

RECURSIVE lstrip(_)
lstrip(t) == IF t # <<>> /\ IsSpace(Head(t)) THEN lstrip(Tail(t)) ELSE t

RECURSIVE rstrip(_)
rstrip(t) ==
    IF t # <<>> /\ IsSpace(t[Len(t)]) THEN rstrip(SubSeq(t, 1, Len(t) - 1)) ELSE t

\* str.strip() and str.lower()
strip(t) == rstrip(lstrip(t))

lower_text(t) == [i \in 1..Len(t) |-> lower(t[i])]

normalize(t) == lower_text(strip(t))

\* a[i:i+k] == b[j:j+k]
BlockAt(a, b, i, j, k) == \A d \in 0..(k - 1) : a[i + d + 1] = b[j + d + 1]

\* The blocks of length k inside a[alo:ahi] and b[blo:bhi].
Blocks(a, b, alo, ahi, blo, bhi, k) ==
    {ij \in (alo..(ahi - k)) \X (blo..(bhi - k)) : BlockAt(a, b, ij[1], ij[2], k)}

MaxOf(S) == CHOOSE x \in S : \A y \in S : y <= x

MinOf(S) == CHOOSE x \in S : \A y \in S : x <= y

\* Of the blocks bs of length k, the one starting at i in a that starts
\* earliest in b.
earliest_in_b(bs, i, k) == <<i, MinOf({c[2] : c \in {c \in bs : c[1] = i}}), k>>

\* Of the blocks bs of length k, the one starting earliest in a, and of
\* those the one starting earliest in b.
earliest(bs, k) == earliest_in_b(bs, MinOf({c[1] : c \in bs}), k)

\* The block lengths that occur inside a[alo:ahi] and b[blo:bhi].
block_sizes(a, b, alo, ahi, blo, bhi) ==
    {k \in 1..Min(ahi - alo, bhi - blo) : Blocks(a, b, alo, ahi, blo, bhi, k) # {}}

longest_block(a, b, alo, ahi, blo, bhi, k) ==
    earliest(Blocks(a, b, alo, ahi, blo, bhi, k), k)

\* SequenceMatcher.find_longest_match: the longest block; of those the one
\* starting earliest in a, and of those the one starting earliest in b.
\* Returns <<i, j, k>>, with k = 0 when nothing matches.
find_longest_match(a, b, alo, ahi, blo, bhi) ==
    IF block_sizes(a, b, alo, ahi, blo, bhi) = {} THEN <<alo, blo, 0>>
    ELSE longest_block(a, b, alo, ahi, blo, bhi,
                       MaxOf(block_sizes(a, b, alo, ahi, blo, bhi)))

\* SequenceMatcher.get_matching_blocks, summed: the total size of the
\* blocks found by matching, then recursing to the left and to the right
\* of the longest block m.
RECURSIVE matches(_, _, _, _, _, _)
RECURSIVE matches_around(_, _, _, _, _, _, _)
matches_around(a, b, alo, ahi, blo, bhi, m) ==
    IF m[3] = 0 THEN 0
    ELSE m[3]
         + (IF alo < m[1] /\ blo < m[2]
            THEN matches(a, b, alo, m[1], blo, m[2]) ELSE 0)
         + (IF m[1] + m[3] < ahi /\ m[2] + m[3] < bhi
            THEN matches(a, b, m[1] + m[3], ahi, m[2] + m[3], bhi) ELSE 0)

matches(a, b, alo, ahi, blo, bhi) ==
    matches_around(a, b, alo, ahi, blo, bhi,
                   find_longest_match(a, b, alo, ahi, blo, bhi))

\* The ratio with two empty texts rated 0.
similar_empty_is_zero(s, m) ==
    IF Len(s) + Len(m) = 0 THEN FALSE
    ELSE 10 * matches(s, m, 0, Len(s), 0, Len(m)) >= 3 * (Len(s) + Len(m))

\* SequenceMatcher(None, s, m).ratio() >= 0.60, with ratio = 2*M/T and 1.0
\* when both texts are empty; 2*M/T >= 6/10 is 10*M >= 3*T.
similar(s, m) ==
    IF Len(s) + Len(m) = 0 THEN TRUE
    ELSE 10 * matches(s, m, 0, Len(s), 0, Len(m)) >= 3 * (Len(s) + Len(m))

\* grade_answer_text: <<is_correct, score>>
grade_answer_text(student_answer, model_answer) ==
    IF student_answer = <<>> THEN <<FALSE, 0>>
    ELSE IF similar(normalize(student_answer), normalize(model_answer))
         THEN <<TRUE, 1>> ELSE <<FALSE, 0>>

(***************************************************************************)
(* State: the clock, the four tables the lifecycle uses (a row's id is its *)
(* position), the audit_logs table as the number of its rows per student,  *)
(* and the last request handled with its outcome.  Beside the store:       *)
(* requests, the submit requests being served step by step, each with the  *)
(* objects its database session holds; and grade_call, a call of           *)
(* grade_answer_text with its arguments and its result.                    *)
(***************************************************************************)
VARIABLES now, questions, exams, exam_questions, exam_answers, audit_logs, last,
          requests, grade_call

vars == <<now, questions, exams, exam_questions, exam_answers, audit_logs, last,
          requests, grade_call>>

\* One second and an exam's allowance, in clock ticks.
DurationTicks == DurationMinutes * 60 * TicksPerSecond
MaxTime == MaxPeriods * DurationTicks + MaxOffset

Sessions == {None} \cup {Some(s) : s \in Students}

\* A request body of submit_exam: absent, without "answers", or a list of
\* items {question_id, answer} whose question_id may be null.
PayloadQids == {None} \cup {Some(q) : q \in 1..MaxQuestions}
\* An item without question_id is skipped before its answer is read.
Items == {[question_id |-> None, answer |-> EmptyText]}
         \cup [question_id : PayloadQids \ {None}, answer : AnswerTexts]
RECURSIVE ItemLists(_)
ItemLists(n) ==
    IF n = 0 THEN {<<>>}
    ELSE ItemLists(n - 1) \cup {Append(l, it) : l \in {x \in ItemLists(n - 1) : Len(x) = n - 1}, it \in Items}
\* A list of several items is one that sends a question again with another
\* text: the item the loop has to find stored by an earlier one.
Resends(l) ==
    \A i \in 2..Len(l) :
        /\ l[i].question_id # None
        /\ l[i].question_id = l[i - 1].question_id
        /\ l[i].answer # l[i - 1].answer
Payloads == {[has_answers |-> FALSE, answers |-> <<>>]}
            \cup {[has_answers |-> TRUE, answers |-> l] :
                     l \in {x \in ItemLists(MaxPayload) : Resends(x)}}

NoRequest ==
    [op |-> "none", exam |-> 0, result |-> "none", malformed |-> FALSE, admin |-> FALSE]

\* A request slot with no request in it.
Idle ==
    [pc |-> "idle", exam |-> 0, item |-> [question_id |-> None, answer |-> EmptyText],
     existing |-> 0, existing_answer |-> EmptyText, result |-> "none"]

\* No call of the grader made.
NoCall ==
    [student_answer |-> EmptyText, model_answer |-> EmptyText,
     returned |-> FALSE, is_correct |-> FALSE, score |-> 0]

Init ==
    /\ now = 0
    /\ questions = <<>>
    /\ exams = <<>>
    /\ exam_questions = <<>>
    /\ exam_answers = <<>>
    /\ audit_logs = [s \in Students |-> 0]
    /\ last = NoRequest
    /\ requests = [r \in 1..NumRequests |-> Idle]
    /\ grade_call = NoCall

\* The response of handler op on exam e.
Done(op, e, result) ==
    [op |-> op, exam |-> e, result |-> result, malformed |-> FALSE, admin |-> FALSE]

\* The responses that come from outside the handler: the redirect of
\* login_required_student, and the error handlers not_found and forbidden.
Rejected(result) ==
    [op |-> IF result = "login" THEN "login_required_student" ELSE result,
     exam |-> 0, result |-> result, malformed |-> FALSE, admin |-> FALSE]

(***************************************************************************)
(* Queries.                                                                *)
(***************************************************************************)
\* Question.query.get(qid) is not None
QuestionExists(qid) == qid \in 1..Len(questions)

\* ExamQuestion.query.filter_by(exam_id=e).all()
LinksOf(links, e) == SelectSeq(links, LAMBDA l : l.exam_id = e)

\* ExamAnswer.query.filter_by(exam_id=e).all(), as row ids
AnswerIdsOf(answers, e) == {i \in DOMAIN answers : answers[i].exam_id = e}

RECURSIVE SumScores(_, _)
SumScores(answers, ids) ==
    IF ids = {} THEN 0
    ELSE LET i == CHOOSE x \in ids : TRUE
         IN  answers[i].score + SumScores(answers, ids \ {i})

\* datetime.utcnow() <= start_time + timedelta(minutes=duration_minutes)
check_time_allowed(exam) ==
    now <= exam.start_time + exam.duration_minutes * 60 * TicksPerSecond

\* int((limit - now).total_seconds()): truncation toward zero
remaining(exam) ==
    LET d == exam.start_time + exam.duration_minutes * 60 * TicksPerSecond - now
    IN  IF d >= 0 THEN d \div TicksPerSecond ELSE 0 - ((0 - d) \div TicksPerSecond)

\* add_log: one more row of student_id in audit_logs
add_log(logs, student_id) == [logs EXCEPT ![student_id] = @ + 1]

\* Flushing rows to exam_answers: student_id is declared nullable=False.
commit_ok(rows) == \A i \in DOMAIN rows : rows[i].student_id # None

(***************************************************************************)
(* Helpers of the lifecycle.                                               *)
(***************************************************************************)
\* grade_exam adding the new scores to the total already stored.
grade_exam_incremental(exs, answers, e) ==
    LET ids == {i \in AnswerIdsOf(answers, e) : QuestionExists(answers[i].question_id)}
        graded == [i \in DOMAIN answers |->
                     IF i \in ids
                     THEN LET g == grade_answer_text(answers[i].student_answer,
                                                     questions[answers[i].question_id])
                          IN  [answers[i] EXCEPT !.is_correct = g[1], !.score = g[2]]
                     ELSE answers[i]]
        total == exs[e].total_score + SumScores(graded, ids)
    IN  [exams |-> [exs EXCEPT ![e].total_score = total, ![e].status = "completed"],
         exam_answers |-> graded,
         total |-> total]

\* grade_exam: regrade every answer of exam e whose question exists, set
\* total_score to the sum of the scores just given and status to completed.
grade_exam(exs, answers, e) ==
    LET ids == {i \in AnswerIdsOf(answers, e) : QuestionExists(answers[i].question_id)}
        graded == [i \in DOMAIN answers |->
                     IF i \in ids
                     THEN LET g == grade_answer_text(answers[i].student_answer,
                                                     questions[answers[i].question_id])
                          IN  [answers[i] EXCEPT !.is_correct = g[1], !.score = g[2]]
                     ELSE answers[i]]
        total == SumScores(graded, ids)
    IN  [exams |-> [exs EXCEPT ![e].total_score = total, ![e].status = "completed"],
         exam_answers |-> graded,
         total |-> total]

\* The placeholder auto_submit_exam builds for a link: no student_id given.
placeholder(e, ql) ==
    [exam_id |-> e, question_id |-> ql.question_id, student_id |-> None,
     student_answer |-> EmptyText, is_correct |-> FALSE, score |-> 0]

\* auto_submit_exam: add a placeholder for each link without an answer and
\* commit; grade; force status auto-submitted and stamp end_time; log.  A
\* commit that violates a column constraint raises and is rolled back.
auto_submit_exam(e) ==
    LET existing_qids == {exam_answers[i].question_id : i \in AnswerIdsOf(exam_answers, e)}
        lacking == SelectSeq(LinksOf(exam_questions, e),
                             LAMBDA ql : ql.question_id \notin existing_qids)
        added == exam_answers \o [i \in 1..Len(lacking) |-> placeholder(e, lacking[i])]
    IN  IF ~commit_ok(added)
        THEN [raised |-> TRUE, exams |-> exams, exam_answers |-> exam_answers,
              audit_logs |-> audit_logs]
        ELSE LET g == grade_exam(exams, added, e)
             IN  [raised |-> FALSE,
                  exams |-> [g.exams EXCEPT ![e].status = "auto-submitted",
                                            ![e].end_time = Some(now),
                                            ![e].total_score = g.total],
                  exam_answers |-> g.exam_answers,
                  audit_logs |-> add_log(audit_logs, exams[e].student_id)]

\* start_exam without the closing of older exams.
close_old_exams_skipped(exs, student_id) == exs

\* start_exam, first half: the student's in-progress exams become completed.
close_old_exams(exs, student_id) ==
    [i \in DOMAIN exs |->
        IF exs[i].student_id = student_id /\ exs[i].status = "in-progress"
        THEN [exs[i] EXCEPT !.status = "completed", !.end_time = Some(now)]
        ELSE exs[i]]

\* A selection drawn with replacement.
Samples_with_replacement(n, k) == [1..k -> 1..n]

\* random.sample(all_qs, k): the ordered selections of k distinct questions
Samples(n, k) ==
    {sel \in [1..k -> 1..n] : \A i, j \in 1..k : i # j => sel[i] # sel[j]}

\* The Exam row create_exam_for_student inserts and commits first.
new_exam(student_id, duration_minutes) ==
    [student_id |-> student_id, start_time |-> now, end_time |-> None,
     total_score |-> 0, status |-> "in-progress",
     duration_minutes |-> duration_minutes]

\* The rows of a selection attached to the first exam.
new_links_of_first_exam(e, selected) ==
    [idx \in 1..Len(selected) |->
        [exam_id |-> 1, question_id |-> selected[idx], question_order |-> idx]]

\* The ExamQuestion rows of a selection, in selection order from 1.
new_links(e, selected) ==
    [idx \in 1..Len(selected) |->
        [exam_id |-> e, question_id |-> selected[idx], question_order |-> idx]]

\* submit_exam's loop inserting a row for every item, found or not.
RECURSIVE upsert_insert_only(_, _, _, _)
upsert_insert_only(answers, items, e, student_id) ==
    IF items = <<>> THEN answers
    ELSE IF Head(items).question_id = None
         THEN upsert_insert_only(answers, Tail(items), e, student_id)
         ELSE upsert_insert_only(Append(answers,
                                        [exam_id |-> e,
                                         question_id |-> Head(items).question_id[1],
                                         student_id |-> Some(student_id),
                                         student_answer |-> Head(items).answer,
                                         is_correct |-> FALSE, score |-> 0]),
                                 Tail(items), e, student_id)

\* submit_exam's loop over the payload: update the first row of
\* (exam, question) in place, or insert one.
RECURSIVE upsert(_, _, _, _)
upsert(answers, items, e, student_id) ==
    IF items = <<>> THEN answers
    ELSE LET item == Head(items)
         IN  IF item.question_id = None
             THEN upsert(answers, Tail(items), e, student_id)
             ELSE LET qid == item.question_id[1]
                      found == {i \in AnswerIdsOf(answers, e) : answers[i].question_id = qid}
                  IN  IF found # {}
                      THEN LET existing == CHOOSE i \in found : \A j \in found : i <= j
                           IN  upsert([answers EXCEPT ![existing].student_answer = item.answer],
                                      Tail(items), e, student_id)
                      ELSE upsert(Append(answers,
                                         [exam_id |-> e, question_id |-> qid,
                                          student_id |-> Some(student_id),
                                          student_answer |-> item.answer,
                                          is_correct |-> FALSE, score |-> 0]),
                                  Tail(items), e, student_id)

\* submit_exam's grading loop starting its total from the stored score.
submit_grade_incremental(exs, answers, e) ==
    LET ids == AnswerIdsOf(answers, e)
    IN  IF \E i \in ids : ~QuestionExists(answers[i].question_id)
        THEN [raised |-> TRUE, exams |-> exs, exam_answers |-> answers, total |-> 0]
        ELSE LET graded == [i \in DOMAIN answers |->
                              IF i \in ids
                              THEN LET g == grade_answer_text(answers[i].student_answer,
                                                              questions[answers[i].question_id])
                                   IN  [answers[i] EXCEPT !.is_correct = g[1], !.score = g[2]]
                              ELSE answers[i]]
                 total == exs[e].total_score + SumScores(graded, ids)
             IN  [raised |-> FALSE,
                  exams |-> [exs EXCEPT ![e].total_score = total, ![e].status = "completed"],
                  exam_answers |-> graded,
                  total |-> total]

\* submit_exam's own grading loop: every answer of the exam is graded, and
\* an answer whose question does not exist raises (q is None).
submit_grade(exs, answers, e) ==
    LET ids == AnswerIdsOf(answers, e)
    IN  IF \E i \in ids : ~QuestionExists(answers[i].question_id)
        THEN [raised |-> TRUE, exams |-> exs, exam_answers |-> answers, total |-> 0]
        ELSE LET graded == [i \in DOMAIN answers |->
                              IF i \in ids
                              THEN LET g == grade_answer_text(answers[i].student_answer,
                                                              questions[answers[i].question_id])
                                   IN  [answers[i] EXCEPT !.is_correct = g[1], !.score = g[2]]
                              ELSE answers[i]]
                 total == SumScores(graded, ids)
             IN  [raised |-> FALSE,
                  exams |-> [exs EXCEPT ![e].total_score = total, ![e].status = "completed"],
                  exam_answers |-> graded,
                  total |-> total]

(***************************************************************************)
(* Request handlers.                                                       *)
(***************************************************************************)
\* What every exam-scoped handler does first: login_required_student,
\* Exam.query.get_or_404, and the ownership test before abort(403).
access(sess, e) ==
    IF sess = None THEN "login"
    ELSE IF e \notin DOMAIN exams THEN "not_found"
    ELSE IF exams[e].student_id # sess[1] THEN "forbidden"
    ELSE "ok"

\* The clock moves on: by whole allowances, and in the last period of the
\* model by smaller steps.
Advance(d) ==
    /\ now + d <= MaxTime
    /\ d < DurationTicks => now >= MaxPeriods * DurationTicks
    /\ now' = now + d
    /\ last' = Done("tick", 0, "none")
    /\ UNCHANGED <<questions, exams, exam_questions, exam_answers, audit_logs,
                   requests, grade_call>>

\* POST /admin/add_question, sent with or without an admin session: the
\* route has no login_required_admin.
admin_add_question(admin, question_text, model_answer) ==
    /\ Len(questions) < MaxQuestions
    /\ IF question_text = EmptyText \/ model_answer = EmptyText
       THEN /\ UNCHANGED questions
            /\ last' = [Done("admin_add_question", 0, "required") EXCEPT !.admin = admin]
       ELSE /\ questions' = Append(questions, model_answer)
            /\ last' = [Done("admin_add_question", 0, "added") EXCEPT !.admin = admin]
    /\ UNCHANGED <<now, exams, exam_questions, exam_answers, audit_logs,
                   requests, grade_call>>

\* POST /admin/upload_exam, sent with or without an admin session: with an
\* .xlsx file the handler raises on secure_filename, a name the module never
\* imports; without one it renders the form again.
admin_upload_exam(admin, xlsx) ==
    /\ last' = [Done("admin_upload_exam", 0, IF xlsx THEN "error" ELSE "form")
                   EXCEPT !.admin = admin]
    /\ UNCHANGED <<now, questions, exams, exam_questions, exam_answers, audit_logs,
                   requests, grade_call>>

\* create_exam_for_student, called with the exams table exs: the exam row is
\* committed first; on an empty pool the function returns there; else it
\* links a sample of min(num_questions, pool) questions and logs the start.
create_exam_for_student(exs, student_id, num_questions, duration_minutes) ==
    /\ exams' = Append(exs, new_exam(student_id, duration_minutes))
    /\ IF questions = <<>>
       THEN /\ UNCHANGED <<exam_questions, audit_logs>>
            /\ last' = Done("start_exam", Len(exs) + 1, "no_questions")
       ELSE /\ \E selected \in Samples(Len(questions), Min(num_questions, Len(questions))) :
                   exam_questions' = exam_questions \o new_links(Len(exs) + 1, selected)
            /\ audit_logs[student_id] < MaxLogs
            /\ audit_logs' = add_log(audit_logs, student_id)
            /\ last' = Done("start_exam", Len(exs) + 1, "started")

\* POST /start_exam
start_exam(sess) ==
    IF sess = None
    THEN /\ last' = Rejected("login")
         /\ UNCHANGED <<now, questions, exams, exam_questions, exam_answers, audit_logs,
                        requests, grade_call>>
    ELSE /\ Len(exams) < MaxExams
         /\ create_exam_for_student(close_old_exams(exams, sess[1]), sess[1],
                                    NumQuestions, DurationMinutes)
         /\ UNCHANGED <<now, questions, exam_answers, requests, grade_call>>

\* The expiry handling of GET /exam/<id> run before the access checks.
exam_page_expires_unchecked(sess, e) ==
    /\ e \in DOMAIN exams
    /\ remaining(exams[e]) < 0
    /\ exams[e].status = "in-progress"

\* Whether GET /exam/<id> reaches auto_submit_exam.
exam_page_expires(sess, e) ==
    /\ access(sess, e) = "ok"
    /\ remaining(exams[e]) < 0
    /\ exams[e].status = "in-progress"

\* GET /exam/<id>.  Both redirects to the results are told apart: "results"
\* for an exam that was already closed, "auto-submitted" for one this
\* request closed.
exam_page(sess, e) ==
    /\ IF exam_page_expires(sess, e)
       THEN /\ exams' = auto_submit_exam(e).exams
            /\ exam_answers' = auto_submit_exam(e).exam_answers
            /\ audit_logs' = auto_submit_exam(e).audit_logs
            /\ audit_logs'[exams[e].student_id] <= MaxLogs
       ELSE UNCHANGED <<exams, exam_answers, audit_logs>>
    /\ last' = IF access(sess, e) # "ok" THEN Rejected(access(sess, e))
               ELSE IF remaining(exams[e]) >= 0 THEN Done("exam_page", e, "exam")
               ELSE IF exams[e].status # "in-progress" THEN Done("exam_page", e, "results")
               ELSE IF auto_submit_exam(e).raised THEN Done("exam_page", e, "error")
               ELSE Done("exam_page", e, "auto-submitted")
    /\ UNCHANGED <<now, questions, exam_questions, requests, grade_call>>

\* submit_exam without the test of the request body.
valid_payload_unchecked(payload) == TRUE

\* submit_exam's test of the request body: not data or "answers" not in data
valid_payload(payload) == payload.has_answers

\* POST /submit_exam/<id>
submit_exam(sess, e, payload) ==
    /\ IF access(sess, e) # "ok"
       THEN /\ UNCHANGED <<exams, exam_answers, audit_logs>>
            /\ last' = Rejected(access(sess, e))
       ELSE IF ~check_time_allowed(exams[e])
       THEN LET r == auto_submit_exam(e)
            IN  /\ exams' = r.exams
                /\ exam_answers' = r.exam_answers
                /\ audit_logs' = r.audit_logs
                /\ audit_logs'[exams[e].student_id] <= MaxLogs
                /\ last' = [Done("submit_exam", e,
                                 IF r.raised THEN "error" ELSE "auto-submitted")
                               EXCEPT !.malformed = ~payload.has_answers]
       ELSE IF ~valid_payload(payload)
       THEN /\ UNCHANGED <<exams, exam_answers, audit_logs>>
            /\ last' = [Done("submit_exam", e, "invalid_payload")
                           EXCEPT !.malformed = ~payload.has_answers]
       ELSE LET stored == upsert(exam_answers, payload.answers, e, exams[e].student_id)
                g == submit_grade(exams, stored, e)
            IN  /\ exams' = g.exams
                /\ exam_answers' = g.exam_answers
                /\ UNCHANGED audit_logs
                /\ last' = [Done("submit_exam", e,
                                 IF g.raised THEN "error" ELSE "graded")
                               EXCEPT !.malformed = ~payload.has_answers]
    /\ UNCHANGED <<now, questions, exam_questions, requests, grade_call>>

\* GET /api/exam_questions/<id>
api_get_exam_questions(sess, e) ==
    /\ last' = IF access(sess, e) # "ok" THEN Rejected(access(sess, e))
               ELSE Done("api_get_exam_questions", e, "ok")
    /\ UNCHANGED <<now, questions, exams, exam_questions, exam_answers, audit_logs,
                   requests, grade_call>>

\* GET /results/<id>: the page reads every answer's question, and raises
\* on an answer whose question does not exist.
results_page(sess, e) ==
    /\ last' = IF access(sess, e) # "ok" THEN Rejected(access(sess, e))
               ELSE IF \E i \in AnswerIdsOf(exam_answers, e) :
                           ~QuestionExists(exam_answers[i].question_id)
                    THEN Done("results_page", e, "error")
               ELSE Done("results_page", e, "ok")
    /\ UNCHANGED <<now, questions, exams, exam_questions, exam_answers, audit_logs,
                   requests, grade_call>>

\* GET /api/results_data/<id>
api_results_data(sess, e) ==
    /\ last' = IF access(sess, e) # "ok" THEN Rejected(access(sess, e))
               ELSE Done("api_results_data", e, "ok")
    /\ UNCHANGED <<now, questions, exams, exam_questions, exam_answers, audit_logs,
                   requests, grade_call>>

Next ==
    \/ \E d \in {TicksPerSecond, DurationTicks} : Advance(d)
    \/ \E admin \in BOOLEAN, t \in {EmptyText, <<"a">>}, m \in ModelAnswers \cup {EmptyText} :
           admin_add_question(admin, t, m)
    \/ \E admin \in BOOLEAN, xlsx \in BOOLEAN : admin_upload_exam(admin, xlsx)
    \/ \E sess \in Sessions : start_exam(sess)
    \/ \E sess \in Sessions, e \in 1..MaxExams : exam_page(sess, e)
    \/ \E sess \in Sessions, e \in 1..MaxExams, payload \in Payloads : submit_exam(sess, e, payload)
    \/ \E sess \in Sessions, e \in 1..MaxExams : api_get_exam_questions(sess, e)
    \/ \E sess \in Sessions, e \in 1..MaxExams : results_page(sess, e)
    \/ \E sess \in Sessions, e \in 1..MaxExams : api_results_data(sess, e)

Spec == Init /\ [][Next]_vars

(***************************************************************************)
(* The composer on its own: create_exam_for_student called with any        *)
(* desired count on a pool of any size up to MaxPool.                      *)
(***************************************************************************)
Pools == UNION {[1..n -> ModelAnswers] : n \in 0..MaxPool}

InitCompose ==
    /\ now = 0
    /\ questions \in Pools
    /\ exams = <<>>
    /\ exam_questions = <<>>
    /\ exam_answers = <<>>
    /\ audit_logs = [s \in Students |-> 0]
    /\ last = NoRequest
    /\ requests = [r \in 1..NumRequests |-> Idle]
    /\ grade_call = NoCall

compose(student_id, num_questions) ==
    /\ Len(exams) < MaxExams
    /\ create_exam_for_student(exams, student_id, num_questions, DurationMinutes)
    /\ UNCHANGED <<now, questions, exam_answers, requests, grade_call>>

NextCompose == \E s \in Students, n \in 1..MaxDesired : compose(s, n)

SpecCompose == InitCompose /\ [][NextCompose]_vars

(***************************************************************************)
(* The grader on its own: grade_answer_text called once on any two texts   *)
(* of up to MaxTextLen characters.                                         *)
(***************************************************************************)
GradeChars == {"a", "A", "b", " "}

Texts == UNION {[1..n -> GradeChars] : n \in 0..MaxTextLen}

InitGrade ==
    /\ now = 0
    /\ questions = <<>>
    /\ exams = <<>>
    /\ exam_questions = <<>>
    /\ exam_answers = <<>>
    /\ audit_logs = [s \in Students |-> 0]
    /\ last = NoRequest
    /\ requests = [r \in 1..NumRequests |-> Idle]
    /\ grade_call \in {[NoCall EXCEPT !.student_answer = a, !.model_answer = b] :
                          a \in Texts, b \in Texts}

call_grade_answer_text ==
    /\ ~grade_call.returned
    /\ grade_call' =
           [grade_call EXCEPT
               !.returned = TRUE,
               !.is_correct = grade_answer_text(grade_call.student_answer,
                                                grade_call.model_answer)[1],
               !.score = grade_answer_text(grade_call.student_answer,
                                           grade_call.model_answer)[2]]
    /\ UNCHANGED <<now, questions, exams, exam_questions, exam_answers, audit_logs,
                   last, requests>>

NextGrade == call_grade_answer_text

SpecGrade == InitGrade /\ [][NextGrade]_vars

(***************************************************************************)
(* One student's requests with the clock at the resolution of one tick, a  *)
(* fraction of a second: the expiry tests of exam_page and submit_exam     *)
(* around the time limit.                                                  *)
(***************************************************************************)
NextExpiry ==
    \/ \E d \in {1, DurationTicks} : Advance(d)
    \/ \E m \in ModelAnswers : admin_add_question(TRUE, <<"a">>, m)
    \/ start_exam(Some(1))
    \/ \E e \in 1..MaxExams : exam_page(Some(1), e)
    \/ \E e \in 1..MaxExams, payload \in Payloads : submit_exam(Some(1), e, payload)

SpecExpiry == Init /\ [][NextExpiry]_vars

(***************************************************************************)
(* Two submit requests of one student served at the same time, each with   *)
(* its own database session and one item in its payload.  A request reads  *)
(* the stored row of its item, then commits its insert or update, then     *)
(* grades the exam; the steps of the two requests interleave.  The         *)
(* grading loop with its commit is taken as one step.                      *)
(***************************************************************************)
\* submit_exam up to the query for the item's stored row: the access and
\* time checks pass, and the request keeps the row it found, if any.
submit_lookup(r, sess, e, item) ==
    /\ requests[r].pc \in {"idle", "done"}
    /\ access(sess, e) = "ok"
    /\ check_time_allowed(exams[e])
    /\ LET found == {i \in AnswerIdsOf(exam_answers, e) :
                        exam_answers[i].question_id = item.question_id[1]}
           existing == IF found = {} THEN 0
                       ELSE CHOOSE i \in found : \A j \in found : i <= j
       IN  requests' =
               [requests EXCEPT ![r] =
                   [pc |-> "store", exam |-> e, item |-> item, existing |-> existing,
                    existing_answer |-> IF existing = 0 THEN EmptyText
                                        ELSE exam_answers[existing].student_answer,
                    result |-> "none"]]
    /\ UNCHANGED <<now, questions, exams, exam_questions, exam_answers, audit_logs,
                   last, grade_call>>

\* submit_exam from the branch on the row found to the first commit: the
\* row found gets the text when the text differs from the one loaded;
\* without a row found one is inserted.
submit_store(r) ==
    /\ requests[r].pc = "store"
    /\ exam_answers' =
           IF requests[r].existing = 0
           THEN Append(exam_answers,
                       [exam_id |-> requests[r].exam,
                        question_id |-> requests[r].item.question_id[1],
                        student_id |-> Some(exams[requests[r].exam].student_id),
                        student_answer |-> requests[r].item.answer,
                        is_correct |-> FALSE, score |-> 0])
           ELSE IF requests[r].item.answer = requests[r].existing_answer
           THEN exam_answers
           ELSE [exam_answers EXCEPT
                    ![requests[r].existing].student_answer = requests[r].item.answer]
    /\ requests' = [requests EXCEPT ![r].pc = "grade"]
    /\ UNCHANGED <<now, questions, exams, exam_questions, audit_logs, last, grade_call>>

\* submit_exam's grading loop and second commit, and its response.
submit_grading(r) ==
    /\ requests[r].pc = "grade"
    /\ LET g == submit_grade(exams, exam_answers, requests[r].exam)
       IN  /\ exams' = g.exams
           /\ exam_answers' = g.exam_answers
           /\ requests' = [requests EXCEPT
                              ![r].pc = "done",
                              ![r].result = IF g.raised THEN "error" ELSE "graded"]
           /\ last' = Done("submit_exam", requests[r].exam,
                           IF g.raised THEN "error" ELSE "graded")
    /\ UNCHANGED <<now, questions, exam_questions, audit_logs, grade_call>>

NextRace ==
    \/ \E m \in ModelAnswers : admin_add_question(TRUE, <<"a">>, m)
    \/ start_exam(Some(1))
    \/ \E r \in 1..NumRequests, e \in 1..MaxExams,
          item \in {it \in Items : it.question_id # None} :
           submit_lookup(r, Some(1), e, item)
    \/ \E r \in 1..NumRequests : submit_store(r)
    \/ \E r \in 1..NumRequests : submit_grading(r)

SpecRace == Init /\ [][NextRace]_vars

(***************************************************************************)
(* Properties.                                                             *)
(***************************************************************************)
Terminal(status) == status \in {"completed", "auto-submitted"}

\* The step just taken called auto_submit_exam on exam e: a submit past the
\* time limit, or a view of an expired in-progress exam.
AutoSubmitCalled(e) ==
    /\ last'.exam = e
    /\ \/ last'.op = "submit_exam" /\ ~check_time_allowed(exams[e])
       \/ /\ last'.op = "exam_page"
          /\ remaining(exams[e]) < 0
          /\ exams[e].status = "in-progress"

\* The links of exam e that have no answer row.
Unanswered(e) ==
    {i \in DOMAIN exam_questions :
        /\ exam_questions[i].exam_id = e
        /\ \A j \in AnswerIdsOf(exam_answers, e) :
               exam_answers[j].question_id # exam_questions[i].question_id}

\* C1: once an exam's status is completed or auto-submitted, no request
\* changes that status again.
C1_TerminalIsFinal ==
    [][\A e \in DOMAIN exams :
          Terminal(exams[e].status) => exams'[e].status = exams[e].status]_vars

\* C2: every student has at most one in-progress exam, and right after
\* start_exam the student's only in-progress exam is the one just created,
\* with or without questions in the pool.
C2_OneInProgress ==
    /\ \A s \in Students :
          Cardinality({e \in DOMAIN exams :
              exams[e].student_id = s /\ exams[e].status = "in-progress"}) <= 1
    /\ last.op = "start_exam" =>
          /\ last.exam \in DOMAIN exams
          /\ exams[last.exam].status = "in-progress"
          /\ \A e \in DOMAIN exams :
                (/\ exams[e].student_id = exams[last.exam].student_id
                 /\ exams[e].status = "in-progress") => e = last.exam

\* C2 witness: a start on an empty pool force-closed the student's older
\* in-progress exam (completed with an end time) and left its own in progress.
C2_Witness ==
    /\ last.op = "start_exam"
    /\ last.result = "no_questions"
    /\ \E e \in DOMAIN exams :
          /\ e # last.exam
          /\ exams[e].student_id = exams[last.exam].student_id
          /\ exams[e].status = "completed"
          /\ exams[e].end_time = Some(now)

\* C3: a start_exam that answers "no questions available" leaves the stored
\* exams as they were.
C3_NoExamOnEmptyPool ==
    [][last'.op = "start_exam" /\ last'.result = "no_questions"
          => exams' = exams]_vars

\* C4: auto-submit of an exam with a link that has no answer completes:
\* afterwards every link has an answer row, the rows added are empty, the
\* status is auto-submitted and end_time is set.
C4_AutoSubmitFillsPlaceholders ==
    [][\A e \in DOMAIN exams :
          (AutoSubmitCalled(e) /\ Unanswered(e) # {}) =>
              /\ last'.result = "auto-submitted"
              /\ \A i \in DOMAIN exam_questions :
                    exam_questions[i].exam_id = e =>
                        \E j \in AnswerIdsOf(exam_answers', e) :
                            exam_answers'[j].question_id = exam_questions[i].question_id
              /\ \A j \in (DOMAIN exam_answers') \ (DOMAIN exam_answers) :
                    exam_answers'[j].student_answer = EmptyText
              /\ exams'[e].status = "auto-submitted"
              /\ exams'[e].end_time # None]_vars

\* C5: an auto-submit right after a completed auto-submit of the same exam
\* leaves the answer rows and the total score as they are.
C5_AutoSubmitIdempotent ==
    [][\A e \in DOMAIN exams :
          (/\ last.exam = e
           /\ last.result = "auto-submitted"
           /\ AutoSubmitCalled(e)) =>
              /\ last'.result = "auto-submitted"
              /\ exam_answers' = exam_answers
              /\ exams'[e].total_score = exams[e].total_score]_vars

\* C5 witness: an auto-submit has just completed on an exam that has an
\* answer row and a score, and the exam is still past its limit.
C5_Witness ==
    /\ last.op = "submit_exam"
    /\ last.result = "auto-submitted"
    /\ exams[last.exam].status = "auto-submitted"
    /\ exams[last.exam].total_score = 1
    /\ AnswerIdsOf(exam_answers, last.exam) # {}
    /\ ~check_time_allowed(exams[last.exam])

UniquePairs(answers) ==
    \A i, j \in DOMAIN answers :
        (/\ answers[i].exam_id = answers[j].exam_id
         /\ answers[i].question_id = answers[j].question_id) => i = j

\* C6: there is at most one answer row per (exam, question); a request
\* keeps every row on its (exam, question) and adds no second row for a pair.
C6_OneAnswerPerQuestion ==
    [][/\ UniquePairs(exam_answers')
       /\ \A i \in DOMAIN exam_answers :
             /\ i \in DOMAIN exam_answers'
             /\ exam_answers'[i].exam_id = exam_answers[i].exam_id
             /\ exam_answers'[i].question_id = exam_answers[i].question_id]_vars

\* C6 witness: a submit was stored and graded on an exam that has a row.
C6_Witness ==
    /\ last.op = "submit_exam"
    /\ last.result = "graded"
    /\ \E i \in AnswerIdsOf(exam_answers, last.exam) :
          exam_answers[i].student_answer # EmptyText

GradingJustRan == last.result \in {"graded", "auto-submitted"}

\* C7: right after a grading (a submit answered "graded", or an
\* auto-submit) total_score is the sum of the scores of the exam's rows.
C7_TotalIsSumOfScores ==
    GradingJustRan =>
        exams[last.exam].total_score =
            SumScores(exam_answers, AnswerIdsOf(exam_answers, last.exam))

\* C7 witness: a submit was graded and a row of the exam scored 1.
C7_Witness ==
    /\ last.op = "submit_exam"
    /\ last.result = "graded"
    /\ \E i \in AnswerIdsOf(exam_answers, last.exam) : exam_answers[i].score = 1

\* C8: a submit by the owner past the time limit is answered "auto-submitted"
\* and stores no text of the payload (rows keep their text, new rows are
\* empty); a well-formed submit within the limit is not auto-submitted.
C8_LateSubmitAutoSubmits ==
    [][\A e \in DOMAIN exams :
          (last'.op = "submit_exam" /\ last'.exam = e) =>
              IF ~check_time_allowed(exams[e])
              THEN /\ last'.result = "auto-submitted"
                   /\ exams'[e].status = "auto-submitted"
                   /\ \A i \in DOMAIN exam_answers :
                         exam_answers'[i].student_answer = exam_answers[i].student_answer
                   /\ \A j \in (DOMAIN exam_answers') \ (DOMAIN exam_answers) :
                         exam_answers'[j].student_answer = EmptyText
              ELSE ~last'.malformed => last'.result \in {"graded", "error"}]_vars

\* C9: a request answered with the login redirect or Forbidden changes no
\* exam, link or answer row.
C9_RejectedChangesNothing ==
    [][last'.result \in {"login", "forbidden"}
          => UNCHANGED <<exams, exam_questions, exam_answers>>]_vars

\* C9 witness: a request was refused as Forbidden while every exam is
\* in progress and past its time limit.
C9_Witness ==
    /\ last.result = "forbidden"
    /\ exams # <<>>
    /\ \A e \in DOMAIN exams :
          exams[e].status = "in-progress" /\ ~check_time_allowed(exams[e])

\* C10 as claimed: a submit by the owner without "answers" is answered as
\* a client error and changes neither the exam nor its answers.
C10_MalformedNeverMutates ==
    [][(last'.op = "submit_exam" /\ last'.malformed) =>
          /\ last'.result = "invalid_payload"
          /\ UNCHANGED <<exams, exam_answers>>]_vars

\* C10: a submit by the owner without "answers", made within the time
\* limit, is answered as a client error and changes neither the exam nor
\* its answers.
C10_MalformedInTime ==
    [][(/\ last'.op = "submit_exam"
        /\ last'.malformed
        /\ check_time_allowed(exams[last'.exam])) =>
          /\ last'.result = "invalid_payload"
          /\ UNCHANGED <<exams, exam_answers>>]_vars

\* C10 witness: a malformed submit was refused on an in-progress exam.
C10_Witness ==
    /\ last.op = "submit_exam"
    /\ last.result = "invalid_payload"
    /\ last.malformed
    /\ exams[last.exam].status = "in-progress"

\* The links of exam e are n rows on n different questions, in the
\* presentation orders 1..n.
ComposedOf(links, e, n) ==
    /\ Len(LinksOf(links, e)) = n
    /\ \A i, j \in 1..n :
          i # j => LinksOf(links, e)[i].question_id # LinksOf(links, e)[j].question_id
    /\ {LinksOf(links, e)[i].question_order : i \in 1..n} = 1..n
    /\ \A i \in 1..n : LinksOf(links, e)[i].question_id \in 1..Len(questions)

\* C11: on a non-empty pool, create_exam_for_student with a desired count
\* n >= 1 gives the new exam exactly min(n, pool size) links, on different
\* questions, in the presentation orders 1..min(n, pool size).
C11_ComposerSelection ==
    [][\A s \in Students, n \in 1..MaxDesired :
          (questions # <<>> /\ compose(s, n)) =>
              ComposedOf(exam_questions', Len(exams) + 1, Min(n, Len(questions)))]_vars

\* C11 witness: on a pool of MaxPool questions one exam got all of them (a
\* desired count above the pool) and another got fewer, but more than one.
C11_Witness ==
    /\ Len(questions) = MaxPool
    /\ \E e1, e2 \in DOMAIN exams :
          /\ Len(LinksOf(exam_questions, e1)) = MaxPool
          /\ Len(LinksOf(exam_questions, e2)) \in 2..(MaxPool - 1)

\* C12: no request adds, removes or reorders a link of an exam that exists.
C12_LinksFrozen ==
    [][\A e \in DOMAIN exams :
          LinksOf(exam_questions', e) = LinksOf(exam_questions, e)]_vars

\* C12 witness: an exam with a link and a stored answer was followed by the
\* start of another exam that got a link of its own.
C12_Witness ==
    /\ last.op = "start_exam"
    /\ last.result = "started"
    /\ \E e \in DOMAIN exams :
          /\ e # last.exam
          /\ LinksOf(exam_questions, e) # <<>>
          /\ AnswerIdsOf(exam_answers, e) # {}

\* The student a lifecycle request acted for: the owner of the exam it
\* started, submitted or auto-submitted.
ActingStudent == exams'[last'.exam].student_id

\* C13: every start (with its force-closing of older exams, and also when
\* it fails on an empty pool), every submit that stored and graded answers
\* and every auto-submit adds at least one audit row of the acting student.
C13_MutationsAreLogged ==
    [][(last'.op = "start_exam" \/ last'.result \in {"graded", "auto-submitted"})
          => audit_logs'[ActingStudent] > audit_logs[ActingStudent]]_vars

\* C14: a question is added only by a request that carries an admin
\* session.
C14_OnlyAdminAddsQuestion ==
    [][Len(questions') > Len(questions) => last'.admin]_vars

\* C19: every answer row is on a question linked to its exam, so an exam
\* has no more answer rows, and no higher total, than it has links.
C19_AnswersWithinLinks ==
    /\ \A i \in DOMAIN exam_answers :
          \E j \in DOMAIN exam_questions :
              /\ exam_questions[j].exam_id = exam_answers[i].exam_id
              /\ exam_questions[j].question_id = exam_answers[i].question_id
    /\ \A e \in DOMAIN exams :
          /\ Cardinality(AnswerIdsOf(exam_answers, e)) <= Len(LinksOf(exam_questions, e))
          /\ exams[e].total_score <= Len(LinksOf(exam_questions, e))

\* C20: a submit within the time limit either stores its answers, grades
\* the exam and completes it with the total recomputed, or changes neither
\* the exam nor any answer row.
C20_SubmitAllOrNothing ==
    [][\A e \in DOMAIN exams :
          (/\ last'.op = "submit_exam"
           /\ last'.exam = e
           /\ check_time_allowed(exams[e])) =>
              \/ /\ last'.result = "graded"
                 /\ exams'[e].status = "completed"
                 /\ exams'[e].total_score =
                        SumScores(exam_answers', AnswerIdsOf(exam_answers', e))
              \/ UNCHANGED <<exams, exam_answers>>]_vars

\* C15: a view of an exam at any time after its limit, less than a second
\* after included, finds a negative remaining time and does not show the
\* exam; one that was in progress is handed to auto_submit_exam.
C15_LateViewExpires ==
    [][\A e \in DOMAIN exams :
          (/\ last'.op = "exam_page"
           /\ last'.exam = e
           /\ ~check_time_allowed(exams[e])) =>
              /\ remaining(exams[e]) < 0
              /\ last'.result # "exam"
              /\ exams[e].status = "in-progress" =>
                     last'.result \in {"auto-submitted", "error"}]_vars

\* C16 as claimed: grade(x, x) is (true, 1) for every text x.
C16_IdenticalIsCorrect ==
    (grade_call.returned /\ grade_call.student_answer = grade_call.model_answer)
        => (grade_call.is_correct /\ grade_call.score = 1)

\* C16: grade(x, x) is (true, 1) for every text x that is not empty.
C16_NonEmptyIdenticalIsCorrect ==
    (/\ grade_call.returned
     /\ grade_call.student_answer = grade_call.model_answer
     /\ grade_call.student_answer # EmptyText)
        => (grade_call.is_correct /\ grade_call.score = 1)

\* C16 witness: a text of spaces only was graded against itself: not empty,
\* and empty once normalized.
C16_Witness ==
    /\ grade_call.returned
    /\ grade_call.student_answer = grade_call.model_answer
    /\ Len(grade_call.student_answer) = MaxTextLen
    /\ normalize(grade_call.student_answer) = EmptyText
    /\ grade_call.is_correct

\* C17: grade(a, b) and grade(b, a) give the same correctness flag.
C17_GradeSymmetric ==
    grade_call.returned =>
        grade_call.is_correct =
            grade_answer_text(grade_call.model_answer, grade_call.student_answer)[1]

\* The requests all finished graded, on question q of exam e.
BothFinishedOn(e, q) ==
    \A r \in 1..NumRequests :
        /\ requests[r].pc = "done"
        /\ requests[r].result = "graded"
        /\ requests[r].exam = e
        /\ requests[r].item.question_id = Some(q)

\* C18: after two interleaved submits on one question of an in-time exam
\* have finished, the pair (exam, question) has exactly one answer row, its
\* text is the text of one of the two requests, and total_score is the sum
\* of the scores of the exam's rows.
C18_LastWriteWins ==
    \A e \in DOMAIN exams, q \in 1..MaxQuestions :
        BothFinishedOn(e, q) =>
            /\ Cardinality({i \in AnswerIdsOf(exam_answers, e) :
                               exam_answers[i].question_id = q}) = 1
            /\ \A i \in AnswerIdsOf(exam_answers, e) :
                  exam_answers[i].question_id = q =>
                      \E r \in 1..NumRequests :
                          exam_answers[i].student_answer = requests[r].item.answer
            /\ exams[e].total_score =
                   SumScores(exam_answers, AnswerIdsOf(exam_answers, e))

\* C21: once an exam is completed or auto-submitted, no request changes
\* the text or the correctness flag of any of its answer rows, nor its
\* total_score.
C21_TerminalAnswersFrozen ==
    [][\A e \in DOMAIN exams :
          Terminal(exams[e].status) =>
              /\ exams'[e].total_score = exams[e].total_score
              /\ \A i \in AnswerIdsOf(exam_answers, e) :
                    /\ exam_answers'[i].student_answer = exam_answers[i].student_answer
                    /\ exam_answers'[i].is_correct = exam_answers[i].is_correct]_vars

\* C22: an exam that is completed or auto-submitted has its end_time set,
\* and an exam in progress has none.
C22_EndTimeIffTerminal ==
    \A e \in DOMAIN exams :
        Terminal(exams[e].status) <=> exams[e].end_time # None
====
